---- MODULE Spec2Model ----
(***************************************************************************)
(* A model of the "define" command-line dictionary: the configuration      *)
(* merge and its JSON form (internal/config), the indenting PanicWriter    *)
(* (internal/io), the Oxford provider's Provide and the start-up and       *)
(* look-up flow of the command (define.go), and the Glosbe source's        *)
(* Define (source/glosbe).                                                 *)
(*                                                                         *)
(* Each part of the program has its own variables and its own              *)
(* specification; a specification leaves the other parts' variables at     *)
(* their idle values.                                                      *)
(***************************************************************************)
EXTENDS Integers, Sequences, FiniteSets, TLC

VARIABLES
    mergeIn,      \* the configurations handed to mergeConfigurations, in order
    mergeOut,     \* [done, conf]: what mergeConfigurations returned
    rtIn,         \* the run-time NewFromRuntime reads: args, files, environment
    rtOut,        \* [done, conf, err, read, merged]: what NewFromRuntime returned
    jsIn,         \* [c, registry]: a Configuration and the registered providers
    jsOut,        \* [stage, doc, c2, err]: its JSON form and what was decoded from it
    oxIn,         \* the Oxford credentials in the environment and on the command line
    oxConf,       \* [stage, AppID, AppKey]: the Oxford provider's configuration
    oxOut,        \* [done, source, err]: what the Oxford provider's Provide returned
    writers,      \* the PanicWriters made so far: [spaces, parent, by]
    stack,        \* the writers handed to the IndentWrites callbacks now running
    out,          \* what reached the inner io.Writer: [w, p, depth, bytes] per Write
    run,          \* the run-time of one run of the command
    cli,          \* the state of that run: position, configuration, output, exit
    apiURL,       \* glosbe's package-level URL: [Base, RawQuery]
    requests,     \* the Define calls made so far: [word, url] per call
    glOut         \* [result, err]: what the last Define returned

mergeVars == <<mergeIn, mergeOut>>
rtVars == <<rtIn, rtOut>>
jsVars == <<jsIn, jsOut>>
oxVars == <<oxIn, oxConf, oxOut>>
wrVars == <<writers, stack, out>>
cliVars == <<run, cli>>
glVars == <<apiURL, requests, glOut>>
vars == <<mergeVars, rtVars, jsVars, oxVars, wrVars, cliVars, glVars>>

(***************************************************************************)
(* Bounds of the model.                                                    *)
(***************************************************************************)
MaxIndent == 2        \* indentation sizes range over 0..MaxIndent
MaxWriters == 3       \* PanicWriters made in one run of the writer
MaxWrites == 2        \* writes made in one run of the writer
MaxSpaces == 2        \* the spaces one IndentWrites or IndentedWriter adds, 1 at least
MaxCalls == 3         \* Define calls made in one run of the Glosbe source

(***************************************************************************)
(* Values.                                                                 *)
(***************************************************************************)
\* define.go: the defaults handed to NewFromRuntime
defaultConfigFileLocation == "~/.define.conf.json"
defaultIndentationSize == 2
defaultPreferredSource == "Glosbe"

\* oxford/provider.go: the key of the Oxford provider
OxfordJSONKey == "OxfordDictionary"

IndentSizes == 0..MaxIndent
SourceNames == {"", OxfordJSONKey, "Unknown"}

\* config.Configuration: the exported fields, whose zero values are 0 and
\* "", and the private ones.
NoProviders == [k \in {} |-> 0]

ZeroConf == [IndentationSize |-> 0, PreferredSource |-> "",
             providerConfigs |-> NoProviders, configFileLocation |-> ""]

Conf(indent, source) ==
    [ZeroConf EXCEPT !.IndentationSize = indent, !.PreferredSource = source]

(***************************************************************************)
(* mergo.Merge(&dst, src): every settable (exported) field of dst that is  *)
(* empty takes src's value; a field of dst that is set is kept. The        *)
(* private fields cannot be set by reflection and stay as they are.        *)
(***************************************************************************)
mergoMergeOverwrite(dst, src) ==
    [dst EXCEPT
        !.IndentationSize = IF src.IndentationSize # 0
                               THEN src.IndentationSize ELSE @,
        !.PreferredSource = IF src.PreferredSource # ""
                               THEN src.PreferredSource ELSE @]

mergoMerge(dst, src) ==
    [dst EXCEPT
        !.IndentationSize = IF @ = 0 THEN src.IndentationSize ELSE @,
        !.PreferredSource = IF @ = "" THEN src.PreferredSource ELSE @]

\* mergeConfigurations: the loop over confs, left to right, from a zero
\* Configuration.
RECURSIVE mergeLoop(_, _)
mergeLoop(merged, confs) ==
    IF confs = <<>> THEN merged
    ELSE mergeLoop(mergoMerge(merged, Head(confs)), Tail(confs))

mergeConfigurations(confs) == mergeLoop(ZeroConf, confs)

(***************************************************************************)
(* Errors are named by their message; NilErr is Go's nil error.            *)
(***************************************************************************)
NilErr == "nil"
ErrFlagParse == "flag: parse error"
ErrNotExist == "open: no such file or directory"
ErrRead == "read: permission denied"
ErrJSONSyntax == "json: invalid character"
ErrJSONType == "json: cannot unmarshal"
ErrConfigFile == "error reading config file"

(***************************************************************************)
(* Provider configurations. A provider configuration is a pointer to a     *)
(* struct of string fields that reports its JSON key; the struct type, and *)
(* so the set of its exported fields, goes with the key. The Oxford        *)
(* configuration has AppID and AppKey; the Glosbe source is built from an  *)
(* HTTP client alone and its configuration has no field. The Webster       *)
(* provider, a third of the same kind as Oxford's, is left out.            *)
(***************************************************************************)
GlosbeJSONKey == defaultPreferredSource
ProviderKeys == {OxfordJSONKey, GlosbeJSONKey}
FieldNames == {"AppID", "AppKey"}
Creds == {"", "id", "key"}

ProviderFields(key) == IF key = OxfordJSONKey THEN {"AppID", "AppKey"} ELSE {}

ProviderConfs ==
    {pc \in [isNil : BOOLEAN, JSONKey : ProviderKeys, val : [FieldNames -> Creds]] :
        /\ \A f \in FieldNames \ ProviderFields(pc.JSONKey) : pc.val[f] = ""
        /\ pc.isNil => \A f \in FieldNames : pc.val[f] = ""}

(***************************************************************************)
(* JSON. A value is absent, a number or a string; a configuration document *)
(* is an object with the two base keys and one sub-object per provider     *)
(* key, each of which may be absent. Bytes that are not JSON at all are a  *)
(* file of kind "malformed".                                               *)
(***************************************************************************)
Absent == [t |-> "absent", n |-> 0, s |-> ""]
JNum(n) == [t |-> "num", n |-> n, s |-> ""]
JStr(s) == [t |-> "str", n |-> 0, s |-> s]

NoSub == [present |-> FALSE, val |-> [f \in FieldNames |-> Absent]]
ZeroDoc == [IndentationSize |-> Absent, PreferredSource |-> Absent,
            sub |-> [k \in ProviderKeys |-> NoSub]]

\* MarshalJSON: structs.Map gives the exported base fields; every provider
\* configuration that is not nil and has at least one field is added under
\* its own JSON key.
marshalled(c, k) ==
    {key \in DOMAIN c.providerConfigs :
        /\ ~c.providerConfigs[key].isNil
        /\ ProviderFields(c.providerConfigs[key].JSONKey) # {}
        /\ c.providerConfigs[key].JSONKey = k}

MarshalJSON(c) ==
    [IndentationSize |-> JNum(c.IndentationSize),
     PreferredSource |-> JStr(c.PreferredSource),
     sub |-> [k \in ProviderKeys |->
                IF marshalled(c, k) = {} THEN NoSub
                ELSE LET pc == c.providerConfigs[CHOOSE key \in marshalled(c, k) : TRUE]
                     IN  [present |-> TRUE,
                          val |-> [f \in FieldNames |->
                                     IF f \in ProviderFields(k)
                                     THEN JStr(pc.val[f]) ELSE Absent]]]]

decodeProviderNot(conf, sub) == conf

\* json.Unmarshal of an object into a struct of string fields: a key that
\* is present with a string sets the field, any other leaves it.
decodeProvider(conf, sub) ==
    [conf EXCEPT !.val = [f \in FieldNames |->
        IF f \in ProviderFields(conf.JSONKey) /\ sub.val[f].t = "str"
        THEN sub.val[f].s ELSE @[f]]]

\* The keys of the registered providers whose key is in the document.
matching(doc, registry) ==
    {k \in DOMAIN registry : doc.sub[registry[k].JSONKey].present}

\* UnmarshalJSON: the base fields are decoded first, and a type error there
\* is returned (the fields of the right type are still set); then every
\* registered provider whose key is in the document has its sub-object
\* decoded into the registry's configuration, errors ignored, and is
\* attached under its JSON key.
UnmarshalJSON(c, file, registry) ==
    IF file.kind = "malformed"
    THEN [conf |-> c, err |-> ErrJSONSyntax, registry |-> registry]
    ELSE
    LET doc == file.doc
        base == [c EXCEPT
            !.IndentationSize = IF doc.IndentationSize.t = "num"
                                   THEN doc.IndentationSize.n ELSE @,
            !.PreferredSource = IF doc.PreferredSource.t = "str"
                                   THEN doc.PreferredSource.s ELSE @]
        typeErr == \/ doc.IndentationSize.t = "str"
                   \/ doc.PreferredSource.t = "num"
        decoded == [k \in DOMAIN registry |->
                      IF k \in matching(doc, registry)
                      THEN decodeProvider(registry[k], doc.sub[registry[k].JSONKey])
                      ELSE registry[k]]
        attached == {decoded[k].JSONKey : k \in matching(doc, registry)}
    IN  IF typeErr
        THEN [conf |-> base, err |-> ErrJSONType, registry |-> registry]
        ELSE [conf |-> [base EXCEPT !.providerConfigs =
                          [j \in DOMAIN base.providerConfigs \cup attached |->
                             IF j \in attached
                             THEN decoded[CHOOSE k \in matching(doc, registry) :
                                              decoded[k].JSONKey = j]
                             ELSE base.providerConfigs[j]]],
              err |-> NilErr,
              registry |-> decoded]

(***************************************************************************)
(* The run-time NewFromRuntime reads: the parsed command line, the home    *)
(* directory, the files and the environment.                               *)
(***************************************************************************)
ExplicitPath == "conf.json"
ExpandedDefault == "/home/user/.define.conf.json"
Paths == {ExplicitPath, defaultConfigFileLocation, ExpandedDefault}

AbsentFile == [kind |-> "absent", doc |-> ZeroDoc]

\* homedir.Expand: a leading ~ is replaced by the home directory, which may
\* be unknown; the callers keep the path as it is when that fails.
Expand(path, home) ==
    IF path = defaultConfigFileLocation
    THEN IF home THEN [path |-> ExpandedDefault, err |-> NilErr]
                 ELSE [path |-> "", err |-> "homedir: cannot expand"]
    ELSE [path |-> path, err |-> NilErr]

\* os.Stat followed by !os.IsNotExist(err)
statFindsAlways(rt, path) == TRUE

statFinds(rt, path) == rt.fs[path].kind # "absent"

\* strconv.ParseUint(s, 10, 0) on the strings the environment may hold
ParseUint(s) ==
    CASE s = "0" -> [val |-> 0, err |-> NilErr]
      [] s = "1" -> [val |-> 1, err |-> NilErr]
      [] s = "2" -> [val |-> 2, err |-> NilErr]
      [] OTHER   -> [val |-> 0, err |-> "strconv.ParseUint: invalid syntax"]

initializeCommandLineConfig(args) ==
    [ZeroConf EXCEPT !.configFileLocation = args.configFile,
                     !.IndentationSize = args.indentSize,
                     !.PreferredSource = args.preferredSource]

initializeFileConfig(fileLocation, rt, registry) ==
    LET expanded == Expand(fileLocation, rt.home)
        location == IF expanded.err = NilErr THEN expanded.path ELSE fileLocation
        file == rt.fs[location]
    IN  CASE file.kind = "absent" ->
               [conf |-> ZeroConf, err |-> ErrNotExist, registry |-> registry]
          [] file.kind = "unreadable" ->
               [conf |-> ZeroConf, err |-> ErrRead, registry |-> registry]
          [] file.kind = "empty" ->
               [conf |-> ZeroConf, err |-> NilErr, registry |-> registry]
          [] OTHER -> UnmarshalJSON(ZeroConf, file, registry)

initializeEnvironmentConfig(rt) ==
    LET parsed == ParseUint(rt.envIndent)
    IN  [ZeroConf EXCEPT
            !.IndentationSize = IF parsed.err = NilErr THEN parsed.val ELSE @,
            !.PreferredSource = rt.envSource]

\* The error NewFromRuntime reports when the config file cannot be loaded.
configFileErrorCause(err) == err

configFileError(err) == ErrConfigFile

\* NewFromRuntime. Beside the configuration and the error it returns, the
\* record tells which file was read ("" for none), whether the merge was
\* performed, and the registry after a config file was decoded.
NewFromRuntime(rt, providerConfigs, defaultLocation, defaultValues, registry) ==
    LET defaults0 == [defaultValues EXCEPT !.configFileLocation = defaultLocation]
        commandLineConfig == initializeCommandLineConfig(rt.args)
        parseErr == IF rt.args.err THEN ErrFlagParse ELSE NilErr
        useDefault == /\ commandLineConfig.configFileLocation = ""
                      /\ defaults0.configFileLocation # ""
        expanded == Expand(defaults0.configFileLocation, rt.home)
        defaults == IF useDefault /\ expanded.err = NilErr
                    THEN [defaults0 EXCEPT !.configFileLocation = expanded.path]
                    ELSE defaults0
        configFileLocation ==
            IF useDefault /\ statFinds(rt, defaults.configFileLocation)
            THEN defaults.configFileLocation
            ELSE commandLineConfig.configFileLocation
        load == parseErr = NilErr /\ configFileLocation # ""
        loaded == IF load
                  THEN initializeFileConfig(configFileLocation, rt, registry)
                  ELSE [conf |-> ZeroConf, err |-> NilErr, registry |-> registry]
        err == IF parseErr # NilErr THEN parseErr
               ELSE IF loaded.err # NilErr THEN configFileError(loaded.err)
               ELSE NilErr
        conf == IF err = NilErr
                THEN mergeConfigurations(<<commandLineConfig, loaded.conf,
                                           initializeEnvironmentConfig(rt), defaults>>)
                ELSE ZeroConf
    IN  [conf |-> [conf EXCEPT !.providerConfigs = providerConfigs],
         err |-> err,
         read |-> IF load THEN configFileLocation ELSE "",
         merged |-> (err = NilErr),
         registry |-> loaded.registry]

(***************************************************************************)
(* mergeConfigurations on its own: any four configurations.                *)
(***************************************************************************)
MergeConfs == {Conf(i, s) : i \in IndentSizes, s \in SourceNames}

MergeIdleOut == [done |-> FALSE, conf |-> ZeroConf]

MergeConfigurations ==
    /\ ~mergeOut.done
    /\ mergeOut' = [done |-> TRUE, conf |-> mergeConfigurations(mergeIn)]
    /\ UNCHANGED <<mergeIn, rtVars, jsVars, oxVars, wrVars, cliVars, glVars>>

(***************************************************************************)
(* NewFromRuntime on its own: any command line, files, environment and     *)
(* defaults.                                                               *)
(***************************************************************************)
Args ==
    [err : {FALSE}, configFile : {"", ExplicitPath},
     indentSize : IndentSizes, preferredSource : SourceNames]
    \cup
    [err : {TRUE}, configFile : {"", ExplicitPath},
     indentSize : {0}, preferredSource : {""}]

JIndents == {Absent, JStr("two")} \cup {JNum(n) : n \in IndentSizes}
JSources == {Absent, JNum(0), JStr(""), JStr(OxfordJSONKey)}

Docs == {[ZeroDoc EXCEPT !.IndentationSize = i, !.PreferredSource = s] :
            i \in JIndents, s \in JSources}

Files == {[kind |-> k, doc |-> ZeroDoc] : k \in {"unreadable", "empty", "malformed"}}
         \cup {[kind |-> "doc", doc |-> d] : d \in Docs}

\* The path at which the default config file is looked for.
ResolvedDefault(home) == IF home THEN ExpandedDefault ELSE defaultConfigFileLocation

FileSystems(home, files) ==
    {[p \in Paths |-> IF p \in present THEN f ELSE AbsentFile] :
        present \in SUBSET {ExplicitPath, ResolvedDefault(home)}, f \in files}

OxfordConf(id, key) ==
    [isNil |-> FALSE, JSONKey |-> OxfordJSONKey,
     val |-> [f \in FieldNames |-> IF f = "AppID" THEN id ELSE key]]

GlosbeConf ==
    [isNil |-> FALSE, JSONKey |-> GlosbeJSONKey, val |-> [f \in FieldNames |-> ""]]

RtIdleOut == [done |-> FALSE, conf |-> ZeroConf, err |-> NilErr,
              read |-> "", merged |-> FALSE]

RtInputs ==
    UNION {[args : Args, home : {home},
            fs : FileSystems(home, Files),
            envIndent : {"", "1", "x"}, envSource : {"", "Unknown"},
            defaultLocation : {"", defaultConfigFileLocation},
            defaults : {ZeroConf,
                        Conf(defaultIndentationSize, defaultPreferredSource)},
            providerConfigs :
                {NoProviders,
                 [k \in {OxfordJSONKey} |-> OxfordConf("id", "key")]}] :
           home \in BOOLEAN}

CallNewFromRuntime ==
    /\ ~rtOut.done
    /\ LET r == NewFromRuntime(rtIn, rtIn.providerConfigs, rtIn.defaultLocation,
                               rtIn.defaults, rtIn.providerConfigs)
       IN  rtOut' = [done |-> TRUE, conf |-> r.conf, err |-> r.err,
                     read |-> r.read, merged |-> r.merged]
    /\ UNCHANGED <<rtIn, mergeVars, jsVars, oxVars, wrVars, cliVars, glVars>>

(***************************************************************************)
(* The JSON form of a Configuration: MarshalJSON, then UnmarshalJSON of    *)
(* its output into a zero Configuration, with the providers registered.    *)
(***************************************************************************)
\* The maps ConfigureProviders may give: each configuration under its key.
ProviderMaps(keys, nils) ==
    UNION {{m \in [ks -> ProviderConfs] :
               \A k \in ks : m[k].JSONKey = k /\ (m[k].isNil => nils)} :
           ks \in SUBSET keys}

Registries ==
    {m \in [ProviderKeys -> ProviderConfs] :
        \A k \in ProviderKeys : m[k].JSONKey = k /\ ~m[k].isNil}

JsInputs ==
    [c : {[Conf(i, s) EXCEPT !.providerConfigs = m] :
             i \in IndentSizes, s \in SourceNames \cup {defaultPreferredSource},
             m \in ProviderMaps(ProviderKeys, TRUE)},
     registry : Registries]

JsIdleOut == [stage |-> "start", doc |-> ZeroDoc, c2 |-> ZeroConf, err |-> NilErr]

Marshal ==
    /\ jsOut.stage = "start"
    /\ jsOut' = [jsOut EXCEPT !.stage = "marshalled", !.doc = MarshalJSON(jsIn.c)]
    /\ UNCHANGED <<jsIn, mergeVars, rtVars, oxVars, wrVars, cliVars, glVars>>

Unmarshal ==
    /\ jsOut.stage = "marshalled"
    /\ LET r == UnmarshalJSON(ZeroConf, [kind |-> "doc", doc |-> jsOut.doc],
                              jsIn.registry)
       IN  /\ jsOut' = [jsOut EXCEPT !.stage = "done", !.c2 = r.conf, !.err = r.err]
           /\ jsIn' = [jsIn EXCEPT !.registry = r.registry]
    /\ UNCHANGED <<mergeVars, rtVars, oxVars, wrVars, cliVars, glVars>>

(***************************************************************************)
(* The Oxford provider: initConfig reads the environment, the command line *)
(* overrides it, Provide checks the result.                                *)
(***************************************************************************)
Unset == "<unset>"

NoRequiredConfigError == [Key |-> ""]
RequiredConfigError(key) == [Key |-> key]

OxInputs == [envID : Creds, envKey : Creds,
             flagID : Creds \cup {Unset}, flagKey : Creds \cup {Unset}]

OxIdleConf == [stage |-> "start", AppID |-> "", AppKey |-> ""]
OxIdleOut == [done |-> FALSE, source |-> FALSE, err |-> NoRequiredConfigError]

\* initConfig: the flags are declared with "" as their default, then the
\* environment is read.
initConfig(env) == [AppID |-> env.envID, AppKey |-> env.envKey]

\* provider.Provide: [source, err], source telling whether a Source is
\* returned.
ProvideKeyFirst(config) ==
    IF config.AppKey = ""
    THEN [source |-> FALSE, err |-> RequiredConfigError("AppKey")]
    ELSE IF config.AppID = ""
    THEN [source |-> FALSE, err |-> RequiredConfigError("AppID")]
    ELSE [source |-> TRUE, err |-> NoRequiredConfigError]

Provide(config) ==
    IF config.AppID = ""
    THEN [source |-> FALSE, err |-> RequiredConfigError("AppID")]
    ELSE IF config.AppKey = ""
    THEN [source |-> FALSE, err |-> RequiredConfigError("AppKey")]
    ELSE [source |-> TRUE, err |-> NoRequiredConfigError]

OxfordInitConfig ==
    /\ oxConf.stage = "start"
    /\ LET conf == initConfig(oxIn)
       IN  oxConf' = [stage |-> "configured", AppID |-> conf.AppID,
                      AppKey |-> conf.AppKey]
    /\ UNCHANGED <<oxIn, oxOut, mergeVars, rtVars, jsVars, wrVars, cliVars, glVars>>

\* flags.Parse: a flag that is given sets the field it was declared with.
OxfordParseFlags ==
    /\ oxConf.stage = "configured"
    /\ oxConf' = [stage |-> "parsed",
                  AppID |-> IF oxIn.flagID # Unset THEN oxIn.flagID ELSE oxConf.AppID,
                  AppKey |-> IF oxIn.flagKey # Unset THEN oxIn.flagKey ELSE oxConf.AppKey]
    /\ UNCHANGED <<oxIn, oxOut, mergeVars, rtVars, jsVars, wrVars, cliVars, glVars>>

OxfordProvide ==
    /\ oxConf.stage = "parsed"
    /\ ~oxOut.done
    /\ LET r == Provide(oxConf)
       IN  oxOut' = [done |-> TRUE, source |-> r.source, err |-> r.err]
    /\ UNCHANGED <<oxIn, oxConf, mergeVars, rtVars, jsVars, wrVars, cliVars, glVars>>

(***************************************************************************)
(* The PanicWriter. A writer is its number of spaces; the model also keeps *)
(* the writer it was derived from, by how many spaces, and whether it was  *)
(* handed to an IndentWrites callback. All writers share the inner         *)
(* io.Writer, whose input is the sequence out. The numbers of spaces stay  *)
(* far below the width of uint.                                            *)
(***************************************************************************)
Payloads == {<<"a">>}

\* bytes.Repeat([]byte(" "), count)
Repeat(count) == [i \in 1..count |-> " "]

\* NewPanicWriter: a writer with no indentation
NewPanicWriter == [spaces |-> 0, parent |-> 0, by |-> 0, callback |-> FALSE]

\* Write: what is handed to the inner writer
Write(w, p) == IF 0 < w.spaces THEN Repeat(w.spaces) \o p ELSE p

\* indented: a new writer; the receiver is left as it is
indentedInPlace(w, spaces) ==
    [receiver |-> [w EXCEPT !.spaces = @ + spaces], spaces |-> w.spaces + spaces]

indented(w, spaces) ==
    [receiver |-> w, spaces |-> w.spaces + spaces]

\* The writers after writer i made an indented writer.
derive(i, n, callback) ==
    LET r == indented(writers[i], n)
    IN  Append([writers EXCEPT ![i] = r.receiver],
               [spaces |-> r.spaces, parent |-> i, by |-> n,
                callback |-> callback])

\* The writers the running code holds: the original one, the io.Writers
\* that IndentedWriter returned, and those of the callbacks now running.
held == {i \in 1..Len(writers) :
            ~writers[i].callback \/ \E d \in 1..Len(stack) : stack[d] = i}

\* w.Write(p), on any writer held
WriterWrite ==
    /\ Len(out) < MaxWrites
    /\ \E i \in held, p \in Payloads :
         out' = Append(out, [w |-> i, p |-> p, depth |-> Len(stack),
                             bytes |-> Write(writers[i], p)])
    /\ UNCHANGED <<writers, stack, mergeVars, rtVars, jsVars, oxVars, cliVars, glVars>>

\* w.IndentWrites(n, f): f starts to run with the indented writer
IndentWrites ==
    /\ Len(writers) < MaxWriters
    /\ \E i \in held, n \in 1..MaxSpaces :
         /\ writers' = derive(i, n, TRUE)
         /\ stack' = Append(stack, Len(writers) + 1)
    /\ UNCHANGED <<out, mergeVars, rtVars, jsVars, oxVars, cliVars, glVars>>

\* the callback of the innermost IndentWrites returns
IndentWritesReturn ==
    /\ stack # <<>>
    /\ stack' = SubSeq(stack, 1, Len(stack) - 1)
    /\ UNCHANGED <<writers, out, mergeVars, rtVars, jsVars, oxVars, cliVars, glVars>>

\* w.IndentedWriter(n): an io.Writer that indents by n more
IndentedWriter ==
    /\ Len(writers) < MaxWriters
    /\ \E i \in held, n \in 1..MaxSpaces :
         writers' = derive(i, n, FALSE)
    /\ UNCHANGED <<stack, out, mergeVars, rtVars, jsVars, oxVars, cliVars, glVars>>

(***************************************************************************)
(* The command: init() and main() of define.go, one action per step.       *)
(***************************************************************************)
Actions == {"PrintConfig", "ListSources", "PrintVersion", "DefineWord"}
Words == {"", "cat"}

CliArgs ==
    [err : {FALSE}, configFile : {"", ExplicitPath},
     indentSize : {0, MaxIndent}, preferredSource : SourceNames,
     action : Actions, word : Words]
    \cup
    [err : {TRUE}, configFile : {""}, indentSize : {0}, preferredSource : {""},
     action : {"DefineWord"}, word : {""}]

CliFiles ==
    {[kind |-> "malformed", doc |-> ZeroDoc],
     [kind |-> "doc", doc |-> [ZeroDoc EXCEPT !.PreferredSource = JStr("Unknown")]],
     [kind |-> "doc", doc |-> [ZeroDoc EXCEPT !.IndentationSize = JNum(1),
                                              !.PreferredSource = JStr(OxfordJSONKey)]]}

CliRuns ==
    UNION {[args : CliArgs, home : {home},
            fs : FileSystems(home, CliFiles),
            envIndent : {"", "1"}, envSource : {"", OxfordJSONKey},
            envID : {"", "id"}, envKey : {"", "key"}] :
           home \in BOOLEAN}

\* What a Source may return from Define: the look-up goes over the network.
ErrEmptyResult == "EmptyResultError"
DefineOutcomes ==
    {[result |-> "nil", err |-> "http error"],
     [result |-> "nil", err |-> ErrEmptyResult],
     [result |-> "no entries", err |-> NilErr],
     [result |-> "empty entries", err |-> NilErr],
     [result |-> "valid", err |-> NilErr]}

\* source.ValidateResult: a result with no entry, or with none that has
\* content, is an EmptyResultError.
ValidateResult(result) == IF result = "valid" THEN NilErr ELSE ErrEmptyResult

\* registry.ConfigureProviders: the configuration each registered provider
\* gives, under its JSON key.
ConfigureProviders(rt) ==
    [k \in ProviderKeys |->
        IF k = OxfordJSONKey
        THEN LET conf == initConfig(rt) IN OxfordConf(conf.AppID, conf.AppKey)
        ELSE GlosbeConf]

\* registry.Provide: the provider of the configuration builds its source.
registryProvide(providerConf) ==
    IF providerConf.JSONKey = OxfordJSONKey
    THEN LET r == Provide([AppID |-> providerConf.val["AppID"],
                           AppKey |-> providerConf.val["AppKey"]])
         IN  [source |-> r.source,
              err |-> IF r.err = NoRequiredConfigError THEN NilErr
                      ELSE "Required configuration key is missing"]
    ELSE [source |-> TRUE, err |-> NilErr]

CliIdle ==
    [pc |-> "idle", providerConfs |-> NoProviders, conf |-> ZeroConf,
     err |-> NilErr, merged |-> FALSE, indent |-> defaultIndentationSize,
     finalized |-> [k \in ProviderKeys |-> 0],
     preferredProviderConfig |-> <<>>, provided |-> <<>>, src |-> FALSE,
     defined |-> FALSE, result |-> "nil", defineErr |-> NilErr, validateErr |-> NilErr,
     printed |-> <<>>, exitCode |-> -1, exitVia |-> "", errMsg |-> ""]

CliStart == [CliIdle EXCEPT !.pc = "configure"]

\* quit(code), reached by the given way
quit(c, code, via) ==
    [c EXCEPT !.pc = "exited", !.exitCode = code, !.exitVia = via]

\* handleError: the error it quits on, the first that is not nil; NilErr
\* when it returns.
firstOfNone(errs) == NilErr

firstOfHead(errs) == IF errs = <<>> THEN NilErr ELSE Head(errs)

RECURSIVE firstError(_)
firstError(errs) ==
    IF errs = <<>> THEN NilErr
    ELSE IF Head(errs) # NilErr THEN Head(errs)
    ELSE firstError(Tail(errs))

\* handleError(errs...), then the rest of the step when it returns
handleError(c, errs, rest) ==
    LET e == firstError(errs)
    IN  IF e = NilErr THEN rest
        ELSE quit([c EXCEPT !.errMsg = e, !.printed = Append(@, "error")],
                  1, "handleError")

notCli == <<mergeVars, rtVars, jsVars, oxVars, wrVars, glVars>>

\* init: the providers are configured
InitConfigureProviders ==
    /\ cli.pc = "configure"
    /\ LET providerConfs == ConfigureProviders(run)
           c == [cli EXCEPT !.providerConfs = providerConfs]
       IN  cli' = IF Cardinality(DOMAIN providerConfs) < 1
                  THEN handleError(c, <<"no registered source providers">>, c)
                  ELSE [c EXCEPT !.pc = "newFromRuntime"]
    /\ UNCHANGED <<run, notCli>>

\* init: config.NewFromRuntime, whose flags.Parse shows the usage and quits
\* with 2 when the command line does not parse; then the writers are made
\* again with the indentation of the configuration.
InitNewFromRuntime ==
    /\ cli.pc = "newFromRuntime"
    /\ LET r == NewFromRuntime(run, cli.providerConfs, defaultConfigFileLocation,
                               Conf(defaultIndentationSize, defaultPreferredSource),
                               cli.providerConfs)
       IN  cli' = IF run.args.err
                  THEN quit([cli EXCEPT !.printed = Append(@, "usage")], 2, "usage")
                  ELSE [cli EXCEPT !.pc = "finalize",
                                   !.conf = r.conf, !.err = r.err, !.merged = TRUE,
                                   !.providerConfs = r.registry,
                                   !.indent = r.conf.IndentationSize]
    /\ UNCHANGED <<run, notCli>>

\* The providers the loop over providerConfs has yet to visit.
pending(c) == {k \in DOMAIN c.providerConfs : c.finalized[k] = 0}

\* init: one turn of the loop that finalizes every provider configuration
InitFinalize ==
    /\ cli.pc = "finalize"
    /\ \E k \in pending(cli) :
         LET c == [cli EXCEPT !.finalized[k] = @ + 1]
         IN  cli' = IF pending(c) = {}
                    THEN [c EXCEPT !.pc = "handleError"] ELSE c
    /\ UNCHANGED <<run, notCli>>

\* init: handleError(err) on what NewFromRuntime returned
InitHandleError ==
    /\ cli.pc = "handleError"
    /\ cli' = handleError(cli, <<cli.err>>, [cli EXCEPT !.pc = "select"])
    /\ UNCHANGED <<run, notCli>>

\* The keys whose configuration may become the preferred one.
preferredOfAny(conf, providerConfs) == DOMAIN providerConfs

preferredOf(conf, providerConfs) ==
    IF conf.PreferredSource # ""
    THEN {conf.PreferredSource} \cap DOMAIN providerConfs
    ELSE DOMAIN providerConfs

\* init: the preferred provider configuration is picked
InitSelect ==
    /\ cli.pc = "select"
    /\ LET keys == preferredOf(cli.conf, cli.providerConfs)
       IN  IF keys = {}
           THEN cli' = handleError(cli, <<"preferred provider/source does not exist">>,
                                   cli)
           ELSE \E k \in keys :
                  cli' = [cli EXCEPT !.pc = "provide",
                             !.preferredProviderConfig = <<cli.providerConfs[k]>>]
    /\ UNCHANGED <<run, notCli>>

\* init: registry.Provide on the preferred provider configuration
InitProvide ==
    /\ cli.pc = "provide"
    /\ LET providerConf == Head(cli.preferredProviderConfig)
           r == registryProvide(providerConf)
           c == [cli EXCEPT !.provided = Append(@, providerConf), !.src = r.source]
       IN  cli' = handleError(c,
                      <<IF r.err = NilErr THEN NilErr
                        ELSE "source failed to initialize with error">>,
                      [c EXCEPT !.pc = "parse"])
    /\ UNCHANGED <<run, notCli>>

\* init: the flags are parsed again; the same command line parsed before
InitParse ==
    /\ cli.pc = "parse"
    /\ cli' = handleError(cli, <<IF run.args.err THEN ErrFlagParse ELSE NilErr>>,
                          [cli EXCEPT !.pc = "main"])
    /\ UNCHANGED <<run, notCli>>

\* main: the action the command line asks for
Main ==
    /\ cli.pc = "main"
    /\ cli' =
         CASE run.args.action = "PrintConfig" ->
                quit([cli EXCEPT !.printed = Append(@, "config")], 0, "return")
           [] run.args.action = "ListSources" ->
                quit([cli EXCEPT !.printed = Append(@, "sources")], 0, "return")
           [] run.args.action = "PrintVersion" ->
                quit([cli EXCEPT !.printed = Append(@, "version")], 0, "return")
           [] OTHER ->
                IF run.args.word = ""
                THEN quit([cli EXCEPT !.printed = Append(@, "usage")], 1, "noWord")
                ELSE [cli EXCEPT !.pc = "defineWord"]
    /\ UNCHANGED <<run, notCli>>

\* defineWord
DefineWord ==
    /\ cli.pc = "defineWord"
    /\ \E o \in DefineOutcomes :
         LET c == [cli EXCEPT !.defined = TRUE,
                              !.result = o.result, !.defineErr = o.err,
                              !.validateErr = ValidateResult(o.result)]
         IN  cli' = handleError(c, <<o.err, ValidateResult(o.result)>>,
                        quit([c EXCEPT !.printed = @ \o <<"result", "sourceName">>],
                             0, "return"))
    /\ UNCHANGED <<run, notCli>>

(***************************************************************************)
(* The Glosbe source: source/glosbe. A URL and a query string are          *)
(* sequences of tokens: a token is one byte of a word ("a", " ", "&", "=", *)
(* "+"), the escaped form of one ("%26", "%3D", "%2B"), or a run of        *)
(* letters that is never split ("format", "json", "phrase", the part of    *)
(* the URL before the query).                                              *)
(***************************************************************************)
baseURLString ==
    <<"https://glosbe.com/gapi/translate", "?",
      "format", "=", "json", "&", "from", "=", "en", "&", "dest", "=", "en">>

wordParameter == <<"phrase">>

\* The words Define is called with: empty, plain, with a space, with the
\* bytes that separate the parameters of a query, and with a plus sign.
GlosbeWords ==
    {<<>>, <<"a">>, <<"a", " ", "a">>, <<"a", "&", "phrase", "=", "a">>, <<"+">>}

\* The index of the first t in s; 0 when there is none.
indexOf(s, t) ==
    IF \E i \in 1..Len(s) : s[i] = t
    THEN CHOOSE i \in 1..Len(s) : s[i] = t /\ \A j \in 1..(i - 1) : s[j] # t
    ELSE 0

\* url.QueryEscape: a space becomes "+", a byte that is reserved in a query
\* is percent-encoded.
QueryEscape(s) ==
    [i \in 1..Len(s) |->
        CASE s[i] = " " -> "+"
          [] s[i] = "&" -> "%26"
          [] s[i] = "=" -> "%3D"
          [] s[i] = "+" -> "%2B"
          [] OTHER -> s[i]]

\* url.QueryUnescape
QueryUnescape(s) ==
    [i \in 1..Len(s) |->
        CASE s[i] = "+" -> " "
          [] s[i] = "%26" -> "&"
          [] s[i] = "%3D" -> "="
          [] s[i] = "%2B" -> "+"
          [] OTHER -> s[i]]

\* url.Parse: what follows the first "?" is the raw query.
urlParse(rawURL) ==
    LET i == indexOf(rawURL, "?")
    IN  IF i = 0 THEN [Base |-> rawURL, RawQuery |-> <<>>]
        ELSE [Base |-> SubSeq(rawURL, 1, i - 1),
              RawQuery |-> SubSeq(rawURL, i + 1, Len(rawURL))]

\* URL.String
urlString(u) ==
    IF u.RawQuery = <<>> THEN u.Base ELSE u.Base \o <<"?">> \o u.RawQuery

\* url.Values is a map from a key to the list of its values: here a
\* function whose domain is the set of the keys present. parseQuery cuts
\* the query at every "&" and each piece at its first "=", unescapes both
\* sides and appends the value to the key's list.
NoValues == [k \in {} |-> <<>>]

RECURSIVE parseQuery(_, _)
parseQuery(m, query) ==
    IF query = <<>> THEN m
    ELSE LET i == indexOf(query, "&")
             pair == IF i = 0 THEN query ELSE SubSeq(query, 1, i - 1)
             rest == IF i = 0 THEN <<>> ELSE SubSeq(query, i + 1, Len(query))
             j == indexOf(pair, "=")
             key == QueryUnescape(IF j = 0 THEN pair ELSE SubSeq(pair, 1, j - 1))
             value == QueryUnescape(IF j = 0 THEN <<>>
                                    ELSE SubSeq(pair, j + 1, Len(pair)))
         IN  IF pair = <<>> THEN parseQuery(m, rest)
             ELSE parseQuery([k \in DOMAIN m \cup {key} |->
                                 IF k = key
                                 THEN (IF key \in DOMAIN m THEN m[key] ELSE <<>>)
                                      \o <<value>>
                                 ELSE m[k]],
                             rest)

\* URL.Query
Query(u) == parseQuery(NoValues, u.RawQuery)

SetAppends(v, key, value) ==
    [k \in DOMAIN v \cup {key} |->
        IF k = key THEN (IF key \in DOMAIN v THEN v[key] ELSE <<>>) \o <<value>>
        ELSE v[k]]

\* Values.Set: the key's list becomes the one value.
Set(v, key, value) ==
    [k \in DOMAIN v \cup {key} |-> IF k = key THEN <<value>> ELSE v[k]]

\* The order of the tokens as Go compares strings, byte by byte; no token
\* that a key can hold is the start of another.
ByteOrder ==
    <<" ", "&", "+", "=", "a", "dest", "en", "format", "from", "json", "phrase">>

rank(t) == CHOOSE i \in 1..Len(ByteOrder) : ByteOrder[i] = t

RECURSIVE less(_, _)
less(a, b) ==
    IF b = <<>> THEN FALSE
    ELSE IF a = <<>> THEN TRUE
    ELSE IF Head(a) # Head(b) THEN rank(Head(a)) < rank(Head(b))
    ELSE less(Tail(a), Tail(b))

\* sort.Strings over the keys of the map
RECURSIVE sortedKeys(_)
sortedKeys(keys) ==
    IF keys = {} THEN <<>>
    ELSE LET k == CHOOSE k \in keys : \A o \in keys : o = k \/ less(k, o)
         IN  <<k>> \o sortedKeys(keys \ {k})

\* Values.Encode: the keys in sorted order, every value of a key as
\* key=value with both sides escaped, the pairs joined by "&".
RECURSIVE encodeValues(_, _)
encodeValues(key, vs) ==
    IF vs = <<>> THEN <<>>
    ELSE <<"&">> \o QueryEscape(key) \o <<"=">> \o QueryEscape(Head(vs))
         \o encodeValues(key, Tail(vs))

RECURSIVE encodeKeys(_, _)
encodeKeys(v, keys) ==
    IF keys = <<>> THEN <<>>
    ELSE encodeValues(Head(keys), v[Head(keys)]) \o encodeKeys(v, Tail(keys))

Encode(v) ==
    LET buf == encodeKeys(v, sortedKeys(DOMAIN v))
    IN  IF buf = <<>> THEN <<>> ELSE Tail(buf)

\* What Define returns once the request is made: an error of the HTTP
\* exchange or of the decoding, an EmptyResultError, or a validated result.
GlosbeOutcomes == {o \in DefineOutcomes : o.err # NilErr \/ o.result = "valid"}

GlIdleOut == [result |-> "nil", err |-> NilErr]

\* api.Define: the word is set in the query of the package's URL, the URL
\* is written back and requested.
GlosbeDefine ==
    /\ Len(requests) < MaxCalls
    /\ \E word \in GlosbeWords, o \in GlosbeOutcomes :
         LET queryParams == Set(Query(apiURL), wordParameter, word)
             u == [apiURL EXCEPT !.RawQuery = Encode(queryParams)]
         IN  /\ apiURL' = u
             /\ requests' = Append(requests, [word |-> word, url |-> urlString(u)])
             /\ glOut' = o
    /\ UNCHANGED <<mergeVars, rtVars, jsVars, oxVars, wrVars, cliVars>>

(***************************************************************************)
(* The specifications, one per part of the program.                        *)
(***************************************************************************)
InitMerge ==
    /\ mergeIn \in [1..4 -> MergeConfs]
    /\ mergeOut = MergeIdleOut
    /\ rtIn = <<>>
    /\ rtOut = RtIdleOut
    /\ jsIn = <<>>
    /\ jsOut = JsIdleOut
    /\ oxIn = <<>>
    /\ oxConf = OxIdleConf
    /\ oxOut = OxIdleOut
    /\ writers = <<>>
    /\ stack = <<>>
    /\ out = <<>>
    /\ run = <<>>
    /\ cli = CliIdle
    /\ apiURL = urlParse(baseURLString)
    /\ requests = <<>>
    /\ glOut = GlIdleOut

NextMerge == MergeConfigurations

SpecMerge == InitMerge /\ [][NextMerge]_vars

InitConfig ==
    /\ mergeIn = <<>>
    /\ mergeOut = MergeIdleOut
    /\ rtIn \in RtInputs
    /\ rtOut = RtIdleOut
    /\ jsIn = <<>>
    /\ jsOut = JsIdleOut
    /\ oxIn = <<>>
    /\ oxConf = OxIdleConf
    /\ oxOut = OxIdleOut
    /\ writers = <<>>
    /\ stack = <<>>
    /\ out = <<>>
    /\ run = <<>>
    /\ cli = CliIdle
    /\ apiURL = urlParse(baseURLString)
    /\ requests = <<>>
    /\ glOut = GlIdleOut

NextConfig == CallNewFromRuntime

SpecConfig == InitConfig /\ [][NextConfig]_vars

InitJSON ==
    /\ mergeIn = <<>>
    /\ mergeOut = MergeIdleOut
    /\ rtIn = <<>>
    /\ rtOut = RtIdleOut
    /\ jsIn \in JsInputs
    /\ jsOut = JsIdleOut
    /\ oxIn = <<>>
    /\ oxConf = OxIdleConf
    /\ oxOut = OxIdleOut
    /\ writers = <<>>
    /\ stack = <<>>
    /\ out = <<>>
    /\ run = <<>>
    /\ cli = CliIdle
    /\ apiURL = urlParse(baseURLString)
    /\ requests = <<>>
    /\ glOut = GlIdleOut

NextJSON == Marshal \/ Unmarshal

SpecJSON == InitJSON /\ [][NextJSON]_vars

InitOxford ==
    /\ mergeIn = <<>>
    /\ mergeOut = MergeIdleOut
    /\ rtIn = <<>>
    /\ rtOut = RtIdleOut
    /\ jsIn = <<>>
    /\ jsOut = JsIdleOut
    /\ oxIn \in OxInputs
    /\ oxConf = OxIdleConf
    /\ oxOut = OxIdleOut
    /\ writers = <<>>
    /\ stack = <<>>
    /\ out = <<>>
    /\ run = <<>>
    /\ cli = CliIdle
    /\ apiURL = urlParse(baseURLString)
    /\ requests = <<>>
    /\ glOut = GlIdleOut

NextOxford == OxfordInitConfig \/ OxfordParseFlags \/ OxfordProvide

SpecOxford == InitOxford /\ [][NextOxford]_vars

InitWriter ==
    /\ mergeIn = <<>>
    /\ mergeOut = MergeIdleOut
    /\ rtIn = <<>>
    /\ rtOut = RtIdleOut
    /\ jsIn = <<>>
    /\ jsOut = JsIdleOut
    /\ oxIn = <<>>
    /\ oxConf = OxIdleConf
    /\ oxOut = OxIdleOut
    /\ writers = <<NewPanicWriter>>
    /\ stack = <<>>
    /\ out = <<>>
    /\ run = <<>>
    /\ cli = CliIdle
    /\ apiURL = urlParse(baseURLString)
    /\ requests = <<>>
    /\ glOut = GlIdleOut

NextWriter == WriterWrite \/ IndentWrites \/ IndentWritesReturn \/ IndentedWriter

SpecWriter == InitWriter /\ [][NextWriter]_vars

InitGlosbe ==
    /\ mergeIn = <<>>
    /\ mergeOut = MergeIdleOut
    /\ rtIn = <<>>
    /\ rtOut = RtIdleOut
    /\ jsIn = <<>>
    /\ jsOut = JsIdleOut
    /\ oxIn = <<>>
    /\ oxConf = OxIdleConf
    /\ oxOut = OxIdleOut
    /\ writers = <<>>
    /\ stack = <<>>
    /\ out = <<>>
    /\ run = <<>>
    /\ cli = CliIdle
    /\ apiURL = urlParse(baseURLString)
    /\ requests = <<>>
    /\ glOut = GlIdleOut

NextGlosbe == GlosbeDefine

SpecGlosbe == InitGlosbe /\ [][NextGlosbe]_vars

InitCli ==
    /\ mergeIn = <<>>
    /\ mergeOut = MergeIdleOut
    /\ rtIn = <<>>
    /\ rtOut = RtIdleOut
    /\ jsIn = <<>>
    /\ jsOut = JsIdleOut
    /\ oxIn = <<>>
    /\ oxConf = OxIdleConf
    /\ oxOut = OxIdleOut
    /\ writers = <<>>
    /\ stack = <<>>
    /\ out = <<>>
    /\ run \in CliRuns
    /\ cli = CliStart
    /\ apiURL = urlParse(baseURLString)
    /\ requests = <<>>
    /\ glOut = GlIdleOut

NextCli ==
    \/ InitConfigureProviders \/ InitNewFromRuntime \/ InitFinalize
    \/ InitHandleError \/ InitSelect \/ InitProvide \/ InitParse
    \/ Main \/ DefineWord

SpecCli == InitCli /\ [][NextCli]_vars

Init == InitCli

Next == NextCli

Spec == SpecCli

(***************************************************************************)
(* The properties.                                                         *)
(***************************************************************************)
\* The first of vals that is not zero; zero when there is none.
FirstNonZero(vals, zero) ==
    IF \A i \in 1..Len(vals) : vals[i] = zero THEN zero
    ELSE vals[CHOOSE i \in 1..Len(vals) :
                 vals[i] # zero /\ \A j \in 1..(i - 1) : vals[j] = zero]

\* C1: mergeConfigurations(A, B, C, D) gives, for IndentationSize and for
\* PreferredSource, the first of A.f, B.f, C.f, D.f that is not the zero
\* value, and the zero value when all four are zero; so a zero value of a
\* source of higher priority gives way to a non-zero value of a lower one.
MergePrecedence ==
    mergeOut.done =>
        /\ mergeOut.conf.IndentationSize =
              FirstNonZero([i \in 1..4 |-> mergeIn[i].IndentationSize], 0)
        /\ mergeOut.conf.PreferredSource =
              FirstNonZero([i \in 1..4 |-> mergeIn[i].PreferredSource], "")

MergePrecedenceWitness ==
    /\ mergeOut.done
    /\ mergeIn[1].IndentationSize = 0
    /\ mergeIn[2].IndentationSize = 0
    /\ mergeIn[3].IndentationSize = 1
    /\ mergeIn[4].IndentationSize = 2
    /\ mergeOut.conf.IndentationSize = 1
    /\ mergeIn[1].PreferredSource = OxfordJSONKey
    /\ mergeIn[2].PreferredSource = "Unknown"
    /\ mergeOut.conf.PreferredSource = OxfordJSONKey

\* What the environment gives as the indentation size.
EnvIndent(rt) == IF rt.envIndent \in {"1", "2"}
                 THEN (IF rt.envIndent = "1" THEN 1 ELSE 2) ELSE 0

\* No --config-file flag, and a default location at which there is no file.
NoFlagNoDefaultFile ==
    /\ ~rtIn.args.err
    /\ rtIn.args.configFile = ""
    /\ rtIn.defaultLocation # ""
    /\ rtIn.fs[ResolvedDefault(rtIn.home)].kind = "absent"

\* A --config-file flag that names a file that does not exist.
FlagNamesNoFile ==
    /\ ~rtIn.args.err
    /\ rtIn.args.configFile # ""
    /\ rtIn.fs[rtIn.args.configFile].kind = "absent"

\* C2: without a --config-file flag and with no file at the default path,
\* NewFromRuntime reads no file and returns no error, the configuration
\* being merged from the flags, the environment and the defaults; with a
\* --config-file flag naming a file that does not exist, it returns the
\* config file's read error.
ConfigFileResolution ==
    rtOut.done =>
        /\ NoFlagNoDefaultFile =>
              /\ rtOut.read = ""
              /\ rtOut.err = NilErr
              /\ rtOut.conf.IndentationSize =
                    FirstNonZero(<<rtIn.args.indentSize, EnvIndent(rtIn),
                                   rtIn.defaults.IndentationSize>>, 0)
              /\ rtOut.conf.PreferredSource =
                    FirstNonZero(<<rtIn.args.preferredSource, rtIn.envSource,
                                   rtIn.defaults.PreferredSource>>, "")
        /\ FlagNamesNoFile =>
              /\ rtOut.read = rtIn.args.configFile
              /\ rtOut.err = ErrConfigFile

ConfigFileResolutionWitness ==
    /\ rtOut.done
    /\ NoFlagNoDefaultFile
    /\ rtIn.fs[ExplicitPath].kind = "doc"
    /\ rtIn.args.indentSize = 0
    /\ rtIn.envIndent = "1"
    /\ rtIn.defaults.IndentationSize = defaultIndentationSize
    /\ rtOut.conf.IndentationSize = 1
    /\ rtOut.conf.PreferredSource = defaultPreferredSource
    /\ rtOut.err = NilErr

\* The file NewFromRuntime is to load: the one the flag names, or else the
\* default one when it exists; "" when there is none.
SelectedFile ==
    IF rtIn.args.configFile # "" THEN rtIn.args.configFile
    ELSE IF /\ rtIn.defaultLocation # ""
            /\ rtIn.fs[ResolvedDefault(rtIn.home)].kind # "absent"
         THEN ResolvedDefault(rtIn.home)
         ELSE ""

\* Reading the file, or decoding it as a Configuration, fails.
FileFails(file) ==
    \/ file.kind \in {"absent", "unreadable", "malformed"}
    \/ /\ file.kind = "doc"
       /\ \/ file.doc.IndentationSize.t = "str"
          \/ file.doc.PreferredSource.t = "num"

\* C8: when a config file is selected (by the flag, or the existing default)
\* and reading or decoding it fails, NewFromRuntime returns the error
\* "error reading config file" and never the cause, does not merge (the
\* configuration's own fields stay zero) and still attaches the provider
\* configurations it was given.
ConfigFileErrorIsGeneric ==
    (/\ rtOut.done
     /\ ~rtIn.args.err
     /\ SelectedFile # ""
     /\ FileFails(rtIn.fs[SelectedFile]))
    =>
        /\ rtOut.err = ErrConfigFile
        /\ ~rtOut.merged
        /\ rtOut.conf.IndentationSize = 0
        /\ rtOut.conf.PreferredSource = ""
        /\ rtOut.conf.providerConfigs = rtIn.providerConfigs

ConfigFileErrorIsGenericWitness ==
    /\ rtOut.done
    /\ ~rtIn.args.err
    /\ rtIn.args.configFile = ""
    /\ SelectedFile = ExpandedDefault
    /\ rtIn.fs[SelectedFile].kind = "doc"
    /\ rtIn.fs[SelectedFile].doc.IndentationSize.t = "str"
    /\ rtIn.args.indentSize = 1
    /\ rtIn.defaults.PreferredSource = defaultPreferredSource
    /\ rtIn.providerConfigs # NoProviders
    /\ rtOut.err = ErrConfigFile
    /\ rtOut.conf.providerConfigs = rtIn.providerConfigs

\* The base fields decoded are those that were encoded.
BaseReproduced ==
    /\ jsOut.err = NilErr
    /\ jsOut.c2.IndentationSize = jsIn.c.IndentationSize
    /\ jsOut.c2.PreferredSource = jsIn.c.PreferredSource

\* The provider configuration under key k is attached again, under k.
Reattached(k) ==
    /\ k \in DOMAIN jsOut.c2.providerConfigs
    /\ jsOut.c2.providerConfigs[k] = jsIn.c.providerConfigs[k]

\* C3, as claimed: UnmarshalJSON(MarshalJSON(c)) reproduces the base fields
\* and every provider configuration attached to c, under its JSON key.
RoundTripReproducesAll ==
    jsOut.stage = "done" =>
        /\ BaseReproduced
        /\ \A k \in DOMAIN jsIn.c.providerConfigs :
              ~jsIn.c.providerConfigs[k].isNil => Reattached(k)

\* C3, amended: UnmarshalJSON(MarshalJSON(c)) reproduces the base fields and
\* every attached provider configuration that is not nil and has at least
\* one field, under its JSON key; a provider configuration that is nil or
\* has no field is left out of the JSON and is not attached again.
RoundTripReproducesNonEmpty ==
    jsOut.stage = "done" =>
        /\ BaseReproduced
        /\ \A k \in DOMAIN jsIn.c.providerConfigs :
              IF /\ ~jsIn.c.providerConfigs[k].isNil
                 /\ ProviderFields(jsIn.c.providerConfigs[k].JSONKey) # {}
              THEN Reattached(k)
              ELSE k \notin DOMAIN jsOut.c2.providerConfigs
        /\ DOMAIN jsOut.c2.providerConfigs \subseteq DOMAIN jsIn.c.providerConfigs

RoundTripWitness ==
    /\ jsOut.stage = "done"
    /\ jsIn.c.IndentationSize = 2
    /\ jsIn.c.PreferredSource = OxfordJSONKey
    /\ DOMAIN jsIn.c.providerConfigs = ProviderKeys
    /\ jsIn.c.providerConfigs[OxfordJSONKey] = OxfordConf("id", "key")
    /\ jsIn.c.providerConfigs[GlosbeJSONKey] = GlosbeConf
    /\ DOMAIN jsOut.c2.providerConfigs = {OxfordJSONKey}
    /\ jsOut.c2.providerConfigs[OxfordJSONKey] = OxfordConf("id", "key")
    /\ jsOut.c2.IndentationSize = 2

\* C4: the Oxford provider's Provide fails with RequiredConfigError{"AppID"}
\* whenever AppID is empty, whatever AppKey is; fails with
\* RequiredConfigError{"AppKey"} when AppID is set and AppKey is empty; and
\* returns a Source and no error exactly when both are set.
ProvideRequiresCredentials ==
    oxOut.done =>
        /\ oxConf.AppID = "" =>
              ~oxOut.source /\ oxOut.err = RequiredConfigError("AppID")
        /\ (oxConf.AppID # "" /\ oxConf.AppKey = "") =>
              ~oxOut.source /\ oxOut.err = RequiredConfigError("AppKey")
        /\ (oxOut.source /\ oxOut.err = NoRequiredConfigError)
              <=> (oxConf.AppID # "" /\ oxConf.AppKey # "")

ProvideRequiresCredentialsWitness ==
    /\ oxOut.done
    /\ oxIn.envID = "id"
    /\ oxIn.flagID = ""
    /\ oxConf.AppID = ""
    /\ oxConf.AppKey = "key"
    /\ oxOut.err = RequiredConfigError("AppID")

\* The elements of a sequence.
Range(seq) == {seq[i] : i \in 1..Len(seq)}

\* C5: defineWord prints the result and the source's name only when Define
\* returned no error and ValidateResult of its result returned none; in every
\* other case the run ends through handleError with nothing of the result
\* printed.
NoPartialResults ==
    /\ ({"result", "sourceName"} \cap Range(cli.printed) # {}) =>
          /\ cli.defined
          /\ cli.defineErr = NilErr
          /\ ValidateResult(cli.result) = NilErr
    /\ (/\ cli.defined
        /\ \/ cli.defineErr # NilErr
           \/ ValidateResult(cli.result) # NilErr) =>
          /\ cli.pc = "exited"
          /\ cli.exitVia = "handleError"
          /\ {"result", "sourceName"} \cap Range(cli.printed) = {}

NoPartialResultsWitness ==
    /\ cli.defined
    /\ cli.defineErr = NilErr
    /\ cli.result = "empty entries"
    /\ cli.pc = "exited"
    /\ cli.exitVia = "handleError"
    /\ cli.errMsg = ErrEmptyResult
    /\ "result" \notin Range(cli.printed)

\* C6, as claimed: a run ends with 0 on success, with 1 on a handled error
\* and with 2 on a usage error, which a command line that does not parse
\* and a command line with no word to define both are.
ExitCodes ==
    cli.pc = "exited" =>
        cli.exitCode = CASE cli.exitVia = "return" -> 0
                         [] cli.exitVia = "handleError" -> 1
                         [] OTHER -> 2

\* C7: every provider configuration is finalized at most once and only
\* after NewFromRuntime has returned, and exactly once when the loop that
\* finalizes them is over; when registry.Provide is called every one has
\* been finalized exactly once, and NewFromRuntime returned no error.
StartupOrdering ==
    /\ \A k \in ProviderKeys : cli.finalized[k] <= 1
    /\ (\E k \in ProviderKeys : cli.finalized[k] > 0) => cli.merged
    /\ (cli.merged /\ cli.pc # "finalize") =>
          \A k \in DOMAIN cli.providerConfs : cli.finalized[k] = 1
    /\ cli.provided # <<>> =>
          /\ cli.merged
          /\ cli.err = NilErr
          /\ \A k \in DOMAIN cli.providerConfs : cli.finalized[k] = 1

StartupOrderingWitness ==
    /\ cli.provided # <<>>
    /\ Cardinality(DOMAIN cli.providerConfs) = 2
    /\ \A k \in DOMAIN cli.providerConfs : cli.finalized[k] = 1
    /\ run.fs[ExpandedDefault].kind = "doc"
    /\ cli.src

\* C9: with a merged PreferredSource that is not empty, what is passed to
\* registry.Provide is the provider configuration stored under that key; when
\* there is none under that key the run ends with the error "preferred
\* provider/source ... does not exist" and Provide is not called. Another
\* provider than the preferred one is passed only when the merged
\* PreferredSource is empty.
PreferredProviderSelection ==
    /\ \A i \in 1..Len(cli.provided) :
          /\ cli.conf.PreferredSource # "" =>
                /\ cli.conf.PreferredSource \in DOMAIN cli.providerConfs
                /\ cli.provided[i] = cli.providerConfs[cli.conf.PreferredSource]
          /\ cli.provided[i].JSONKey # cli.conf.PreferredSource =>
                cli.conf.PreferredSource = ""
    /\ (/\ cli.merged /\ cli.err = NilErr
        /\ cli.conf.PreferredSource # ""
        /\ cli.conf.PreferredSource \notin DOMAIN cli.providerConfs) =>
          /\ cli.provided = <<>>
          /\ cli.pc = "exited" =>
                /\ cli.exitCode = 1
                /\ cli.errMsg = "preferred provider/source does not exist"

PreferredProviderSelectionWitness ==
    /\ cli.provided = <<OxfordConf("id", "key")>>
    /\ run.args.preferredSource = ""
    /\ run.envSource = OxfordJSONKey
    /\ cli.conf.PreferredSource = OxfordJSONKey
    /\ cli.src

\* The spaces a writer indents by, as the sum over the writers it derives
\* from.
RECURSIVE Expected(_)
Expected(i) ==
    IF writers[i].parent = 0 THEN 0
    ELSE Expected(writers[i].parent) + writers[i].by

\* C10: a writer made by IndentWrites(n, f) or IndentedWriter(n) prefixes
\* every write with the receiver's spaces plus n, so nested ones with the sum
\* of theirs; the receiver keeps its own indentation, and the original
\* writer's writes are never indented.
IndentationAdditiveAndScoped ==
    /\ writers[1] = NewPanicWriter
    /\ \A i \in 2..Len(writers) :
          writers[i].spaces = writers[writers[i].parent].spaces + writers[i].by
    /\ \A j \in 1..Len(out) :
          out[j].bytes = Repeat(Expected(out[j].w)) \o out[j].p

IndentationWitness ==
    /\ Len(writers) = 3
    /\ writers[2].parent = 1 /\ writers[2].by = 1
    /\ writers[3].parent = 2 /\ writers[3].by = 2
    /\ Len(out) = 2
    /\ out[1].w = 3 /\ out[1].depth = 2 /\ out[1].bytes = <<" ", " ", " ", "a">>
    /\ out[2].w = 1 /\ out[2].depth = 0 /\ out[2].bytes = <<"a">>
    /\ stack = <<>>

\* The values the query of a requested URL holds for a key, as the server
\* that receives the URL reads them.
valuesOf(url, key) ==
    LET q == Query(urlParse(url))
    IN  IF key \in DOMAIN q THEN q[key] ELSE <<>>

\* C11: every Define call writes the package's URL back, so that it is the
\* URL just requested; the URL the n-th call requests has exactly one
\* "phrase" parameter, whose value is the n-th word, whatever the words of
\* the calls before, and has format=json, from=en and dest=en as in the
\* base URL, and no other parameter.
PhraseIsLastWord ==
    /\ requests # <<>> => urlString(apiURL) = requests[Len(requests)].url
    /\ \A n \in 1..Len(requests) :
          /\ valuesOf(requests[n].url, wordParameter) = <<requests[n].word>>
          /\ valuesOf(requests[n].url, <<"format">>) = <<<<"json">>>>
          /\ valuesOf(requests[n].url, <<"from">>) = <<<<"en">>>>
          /\ valuesOf(requests[n].url, <<"dest">>) = <<<<"en">>>>
          /\ DOMAIN Query(urlParse(requests[n].url))
                = {wordParameter, <<"format">>, <<"from">>, <<"dest">>}
          /\ urlParse(requests[n].url).Base = urlParse(baseURLString).Base

PhraseIsLastWordWitness ==
    /\ Len(requests) = 2
    /\ requests[1].word = <<"a", "&", "phrase", "=", "a">>
    /\ requests[2].word = <<"a", " ", "a">>
    /\ requests[2].url =
          <<"https://glosbe.com/gapi/translate", "?",
            "dest", "=", "en", "&", "format", "=", "json", "&",
            "from", "=", "en", "&", "phrase", "=", "a", "+", "a">>
    /\ apiURL.RawQuery # urlParse(baseURLString).RawQuery

====
